---- MODULE Spec2Model ----
(***************************************************************************)
(* A model of src/src/components/ResultsChecker.tsx: the ResultsChecker    *)
(* component, its individual lookup (getResults) and its class scan        *)
(* (fetchClassResults).                                                    *)
(*                                                                         *)
(* Every handler runs to its next `await` in one step: an action is the    *)
(* code between two awaits.  A useState setter is modelled as an           *)
(* assignment to the variable of the same name.                            *)
(***************************************************************************)
EXTENDS Integers, Sequences, FiniteSets, TLC

VARIABLES
    \* ---- component state (useState, lines 49-66)
    activeTab, indexNumber, nationalId, loading, result, isModalOpen,
    schoolCode, levelCode, examYear,
    classLoading, classResults, classSchoolName, isClassModalOpen,
    \* ---- locals of the running fetchClassResults call (lines 135-137)
    results, seq, emptyCount,
    scanParams,    \* schoolCode, levelCode and examYear as the call's closure holds them
    idx,           \* the identifier of the probe in flight (line 143)
    \* ---- where each async handler is suspended
    classPc,       \* "idle" | "fetch" (await fetch, 145) | "json" (await res.json(), 154)
    lookupPc,      \* "idle" | "fetch" (await fetch, 90)  | "json" (await res.json(), 92)
    \* ---- the network and the user's screen
    inFlight,      \* the requests issued and not yet completed
    toast,         \* the last toast shown: [by, title]
    download,      \* the file the last step handed to the browser (line 271), if any
    \* ---- the environment
    rosterSize,    \* the endpoint holds records for the sequence numbers 1..rosterSize
    \* ---- history of the current class scan
    probesIssued,  \* requests issued by the scan since it started
    lastProbed,    \* sequence number of the last request the scan issued (0: none)
    sinceFound,    \* probes completed since the last found probe (or since the start)
    found          \* the payloads of the found probes, in probe order

vars == <<activeTab, indexNumber, nationalId, loading, result, isModalOpen,
          schoolCode, levelCode, examYear,
          classLoading, classResults, classSchoolName, isClassModalOpen,
          results, seq, emptyCount, scanParams, idx, classPc, lookupPc, inFlight,
          toast, download, rosterSize, probesIssued, lastProbed, sinceFound, found>>

lookupVars == <<activeTab, indexNumber, nationalId, loading, result, isModalOpen, lookupPc>>
classInputs == <<schoolCode, levelCode, examYear>>
classState == <<classLoading, classResults, classSchoolName, isClassModalOpen>>
scanVars == <<results, seq, emptyCount, scanParams, idx, classPc,
              probesIssued, lastProbed, sinceFound, found>>

-----------------------------------------------------------------------------
(* Bounds of the model. *)

\* In SpecScan the endpoint holds records for 1..MaxRoster only.
MaxRoster == 3
\* In Spec (the whole component) it holds records for 1..FormRoster only.
FormRoster == 1
\* In SpecRoster the roster is 1..k for k in 0..RosterFew or within RosterNear
\* of MAX_STUDENTS.
RosterFew == 25
RosterNear == 22

-----------------------------------------------------------------------------
(* Program constants. *)

MAX_CONSECUTIVE_EMPTY == 20
MAX_STUDENTS == 1000

-----------------------------------------------------------------------------
(* Data.  The objects a response body can decode to live in Objects, and   *)
(* a decoded object is held by reference: its number in Objects (0: null). *)
(* An optional field is <<>> when missing and <<v>> when present.          *)

StudentResult(name, pct, school) ==
    [studentNames |-> name, weightedPercent |-> pct, attendedSchool |-> school]

\* The other fields of a StudentResult that the class table shows.
Shown(index, division, placedSchool, placedCombination, marks) ==
    [studentIndexNumber |-> index, division |-> division,
     placedSchoolName |-> placedSchool, placedCombinationName |-> placedCombination,
     rawMark |-> marks]

\* A Subject of rawMark; a mark without subject.subjectName has the name "".
Subject(name, pct, grade) == [subjectName |-> name, markPercent |-> pct, letterGrade |-> grade]

\* Sample records: three distinct percents, a missing percent, a zero percent
\* (which ties with the missing one), a missing attended school; marks in
\* overlapping subjects, no rawMark at all, two marks in one subject, a mark
\* without a subject name, marks without a percent or a grade.
Samples ==
    << StudentResult("A", <<55>>, <<"GS One">>) @@
         Shown("123456OLC0012025", "PASS", <<"TS One">>, <<"MPC">>,
               << <<Subject("Math", <<78>>, <<"A">>), Subject("Chemistry", <<60>>, <<"C">>)>> >>),
       StudentResult("B", <<90>>, <<"GS Two">>) @@
         Shown("123456OLC0022025", "PASS", <<"TS Two">>, <<>>,
               << <<Subject("Math", <<91>>, <<"A">>), Subject("Physics", <<85>>, <<"B">>)>> >>),
       StudentResult("C", <<70>>, <<>>) @@
         Shown("123456OLC0032025", "PASS", <<>>, <<>>, <<>>),
       StudentResult("D", <<>>,   <<"GS One">>) @@
         Shown("123456OLC0042025", "FAIL", <<"">>, <<"">>,
               << <<Subject("Math", <<40>>, <<"D">>), Subject("", <<50>>, <<"C">>),
                    Subject("Math", <<65>>, <<"B">>)>> >>),
       StudentResult("E", <<0>>,  <<"GS Two">>) @@
         Shown("123456OLC0052025", "FAIL", <<"TS One">>, <<"HEG">>,
               << <<Subject("Biology", <<>>, <<>>), Subject("Physics", <<>>, <<"F">>)>> >>) >>

\* The samples, and an object without a (non-empty) studentNames.
Objects == Samples \o << StudentResult("", <<>>, <<>>) @@ Shown("", "", <<>>, <<>>, <<>>) >>

\* A response body: one that res.json() rejects, one that decodes to null, one
\* that decodes to the object i.
Undecodable == [json |-> "undecodable", ref |-> 0]
NullBody == [json |-> "null", ref |-> 0]
Object(i) == [json |-> "object", ref |-> i]
Nameless == Object(Len(Objects))

Records == {Object(i) : i \in 1..Len(Samples)}
EmptyBodies == {Undecodable, NullBody, Nameless}

\* Mutant of HasName: any decoded object counts, named or not.
HasNameAnyObject(data) == data.json = "object"

\* `data && data.studentNames` (lines 94, 155)
HasName(data) == data.json = "object" /\ Objects[data.ref].studentNames # ""

\* `x?.weightedPercent ?? 0` (line 167)
WeightedPercentOrZero(r) ==
    IF Objects[r].weightedPercent = <<>> THEN 0 ELSE Objects[r].weightedPercent[1]

\* `results[0].attendedSchool ?? ""` (line 170)
AttendedSchoolOrEmpty(r) ==
    IF Objects[r].attendedSchool = <<>> THEN "" ELSE Objects[r].attendedSchool[1]

\* Mutant of Compare: ascending.
CompareAscending(a, b) == WeightedPercentOrZero(a) - WeightedPercentOrZero(b)

\* The comparator of line 167: negative when a sorts before b.
Compare(a, b) == WeightedPercentOrZero(b) - WeightedPercentOrZero(a)

\* Array.prototype.sort with that comparator (line 167): a stable sort.  The
\* elements that no element sorts before come first, in their order in s, then
\* the others, sorted.
RECURSIVE StableSort(_)
StableSort(s) ==
    IF s = <<>> THEN <<>>
    ELSE LET elems == {s[i] : i \in 1..Len(s)}
             head  == CHOOSE x \in elems : \A y \in elems : Compare(y, x) >= 0
             First(x) == Compare(head, x) = 0
             Rest(x)  == Compare(head, x) # 0
         IN  SelectSeq(s, First) \o StableSort(SelectSeq(s, Rest))

-----------------------------------------------------------------------------
(* The user's screen. *)

NoToast == [by |-> "none", title |-> "none"]
Toast(by, title) == [by |-> by, title |-> title]

Tabs == {"ADVANCED", "ORDINARY", "CLASS"}
\* A string is the sequence of its characters.  The values the user types
\* into the class form: nothing, or those of a class.
SampleSchoolCode == <<"1", "2", "3", "4", "5", "6">>
SampleLevelCode == <<"o", "l", "c">>
SampleExamYear == <<"2", "0", "2", "5">>
SchoolCodes == {<<>>, SampleSchoolCode}
LevelCodes == {<<>>, SampleLevelCode}
ExamYears == {<<>>, SampleExamYear}

\* No file: what a step that exports nothing hands to the browser.
NoDownload == [name |-> <<>>, csv |-> <<>>]
NoExport == download' = NoDownload

ClassRequest(n) == [op |-> "class", seq |-> n]

-----------------------------------------------------------------------------
(* The identifier of a probe, lines 142-143. *)

\* What the closure of a fetchClassResults call holds of the form (the values
\* of the render the button was clicked in).
ScanParams(sc, lc, ey) == [schoolCode |-> sc, levelCode |-> lc, examYear |-> ey]

LowerCase == <<"a", "b", "c", "d", "e", "f", "g", "h", "i", "j", "k", "l", "m",
               "n", "o", "p", "q", "r", "s", "t", "u", "v", "w", "x", "y", "z">>
UpperCase == <<"A", "B", "C", "D", "E", "F", "G", "H", "I", "J", "K", "L", "M",
               "N", "O", "P", "Q", "R", "S", "T", "U", "V", "W", "X", "Y", "Z">>
Digits == <<"0", "1", "2", "3", "4", "5", "6", "7", "8", "9">>

\* String.prototype.toUpperCase (line 143), on letters, digits and punctuation.
ToUpperCaseChar(c) ==
    IF \E i \in 1..Len(LowerCase) : LowerCase[i] = c
    THEN UpperCase[CHOOSE i \in 1..Len(LowerCase) : LowerCase[i] = c]
    ELSE c
ToUpperCase(s) == [i \in 1..Len(s) |-> ToUpperCaseChar(s[i])]

\* String(n) of a natural number (line 142): its decimal digits.
RECURSIVE String(_)
String(n) ==
    IF n < 10 THEN <<Digits[n + 1]>> ELSE String(n \div 10) \o <<Digits[(n % 10) + 1]>>

\* String.prototype.padStart (line 142) with a one-character filler: s when it
\* is long enough already.
RECURSIVE PadStart(_, _, _)
PadStart(s, targetLength, c) ==
    IF Len(s) >= targetLength THEN s ELSE PadStart(<<c>> \o s, targetLength, c)

\* seqStr, line 142.
SeqStr(n) == PadStart(String(n), 3, "0")

\* Mutant of IndexNumberAt: the level code as typed.
IndexNumberAtAsTyped(p, n) == p.schoolCode \o p.levelCode \o SeqStr(n) \o p.examYear

\* idx, line 143, for the sequence number n.
IndexNumberAt(p, n) ==
    p.schoolCode \o ToUpperCase(p.levelCode) \o SeqStr(n) \o p.examYear

-----------------------------------------------------------------------------
(* fetchClassResults, lines 120-194. *)

\* Mutants of the `while` condition: the streak ceiling taken inclusive, the
\* streak ceiling forgotten, the sequence ceiling taken exclusive.
LoopConditionInclusive(e, s) == e <= MAX_CONSECUTIVE_EMPTY /\ s <= MAX_STUDENTS
LoopConditionNoStreak(e, s) == s <= MAX_STUDENTS
LoopConditionExclusive(e, s) == e < MAX_CONSECUTIVE_EMPTY /\ s < MAX_STUDENTS

\* The `while` condition, line 141.
LoopCondition(e, s) == e < MAX_CONSECUTIVE_EMPTY /\ s <= MAX_STUDENTS

\* Mutant of HasResults: a single record does not count.
HasResultsMoreThanOne(sorted) == Len(sorted) > 1

\* `results.length > 0`, line 169.
HasResults(sorted) == Len(sorted) > 0

\* Mutant of ScanLoop: no `finally` (lines 191-193), classLoading stays set.
ScanLoopNoFinally(res, s, e, n, cr, csn, net) ==
    IF LoopCondition(e, s)
    THEN /\ classPc' = "fetch"
         /\ results' = res /\ seq' = s /\ emptyCount' = e
         /\ inFlight' = net \cup {ClassRequest(s)}
         /\ probesIssued' = n + 1
         /\ lastProbed' = s
         /\ idx' = IndexNumberAt(scanParams', s)
         /\ classLoading' = TRUE
         /\ classResults' = cr
         /\ classSchoolName' = csn
         /\ UNCHANGED <<isClassModalOpen, toast>>
    ELSE LET sorted == StableSort(res) IN
         /\ classPc' = "idle"
         /\ results' = sorted /\ seq' = s /\ emptyCount' = e
         /\ inFlight' = net
         /\ probesIssued' = n
         /\ UNCHANGED <<lastProbed, idx>>
         /\ classLoading' = TRUE
         /\ classResults' = sorted
         /\ IF HasResults(sorted)
            THEN /\ classSchoolName' = AttendedSchoolOrEmpty(sorted[1])
                 /\ isClassModalOpen' = TRUE
                 /\ toast' = Toast("fetchClassResults", "Class Results Retrieved!")
            ELSE /\ classSchoolName' = csn
                 /\ UNCHANGED isClassModalOpen
                 /\ toast' = Toast("fetchClassResults", "No Results Found")

\* Control is at the head of the `while` loop (line 141) with locals res, s, e,
\* after n requests; cr and csn are classResults and classSchoolName as the
\* step has set them so far, net the requests in flight without this scan's.
\* Either the next probe is issued (lines 142-148), or the loop is left and
\* lines 167-193 run to the end of the function.
ScanLoop(res, s, e, n, cr, csn, net) ==
    IF LoopCondition(e, s)
    THEN /\ classPc' = "fetch"
         /\ results' = res /\ seq' = s /\ emptyCount' = e
         /\ inFlight' = net \cup {ClassRequest(s)}
         /\ probesIssued' = n + 1
         /\ lastProbed' = s
         /\ idx' = IndexNumberAt(scanParams', s)
         /\ classLoading' = TRUE
         /\ classResults' = cr
         /\ classSchoolName' = csn
         /\ UNCHANGED <<isClassModalOpen, toast>>
    ELSE LET sorted == StableSort(res) IN
         /\ classPc' = "idle"
         /\ results' = sorted /\ seq' = s /\ emptyCount' = e
         /\ inFlight' = net
         /\ probesIssued' = n
         /\ UNCHANGED <<lastProbed, idx>>
         /\ classLoading' = FALSE
         /\ classResults' = sorted
         /\ IF HasResults(sorted)
            THEN /\ classSchoolName' = AttendedSchoolOrEmpty(sorted[1])
                 /\ isClassModalOpen' = TRUE
                 /\ toast' = Toast("fetchClassResults", "Class Results Retrieved!")
            ELSE /\ classSchoolName' = csn
                 /\ UNCHANGED isClassModalOpen
                 /\ toast' = Toast("fetchClassResults", "No Results Found")

\* The button of line 387 is rendered on the CLASS tab and disabled while
\* classLoading (line 389).
CanClickFetchClass == activeTab = "CLASS" /\ ~classLoading

\* The condition of line 121.
ClassInputMissing == schoolCode = <<>> \/ levelCode = <<>> \/ examYear = <<>>

\* What the endpoint answered, for the history of the scan: a probe was found
\* when a record came back, whatever the handler made of it.
IsStudentRecord(d) == d \in Records
ProbeFound(d) == sinceFound' = 0 /\ found' = Append(found, d.ref)
ProbeEmpty == sinceFound' = sinceFound + 1 /\ found' = found

\* Lines 121-128: a required field is missing.
FetchClassResultsMissing ==
    /\ CanClickFetchClass
    /\ ClassInputMissing
    /\ toast' = Toast("fetchClassResults", "Missing Information")
    /\ UNCHANGED <<lookupVars, classInputs, classState, scanVars, inFlight, rosterSize>>
    /\ NoExport

\* Mutant of FetchClassResultsStart: without the two resets of lines 131-132.
FetchClassResultsStartKeepsOld ==
    /\ CanClickFetchClass
    /\ ~ClassInputMissing
    /\ scanParams' = ScanParams(schoolCode, levelCode, examYear)
    /\ sinceFound' = 0
    /\ found' = <<>>
    /\ ScanLoop(<<>>, 1, 0, 0, classResults, classSchoolName, inFlight)
    /\ UNCHANGED <<lookupVars, classInputs, rosterSize>>
    /\ NoExport

\* Lines 130-148: the scan starts and issues its first probe.
FetchClassResultsStart ==
    /\ CanClickFetchClass
    /\ ~ClassInputMissing
    /\ scanParams' = ScanParams(schoolCode, levelCode, examYear)
    /\ sinceFound' = 0
    /\ found' = <<>>
    /\ ScanLoop(<<>>, 1, 0, 0, <<>>, "", inFlight)
    /\ UNCHANGED <<lookupVars, classInputs, rosterSize>>
    /\ NoExport

FetchClassResults == FetchClassResultsMissing \/ FetchClassResultsStart

\* Mutant of ClassFetchSettles: the `continue` of a non-success status without
\* its `seq++` (line 151).
ClassFetchSettlesNoIncrement(outcome) ==
    /\ classPc = "fetch"
    /\ UNCHANGED scanParams
    /\ IF outcome = "ok"
       THEN /\ classPc' = "json"
            /\ UNCHANGED <<results, seq, emptyCount, probesIssued, lastProbed,
                           sinceFound, found, classState, inFlight, toast, idx>>
       ELSE /\ ProbeEmpty
            /\ ScanLoop(results, IF outcome = "notOk" THEN seq ELSE seq + 1,
                        emptyCount + 1, probesIssued,
                        classResults, classSchoolName, inFlight \ {ClassRequest(seq)})
    /\ UNCHANGED <<lookupVars, classInputs, rosterSize>>
    /\ NoExport

\* Mutant of ClassFetchSettles: no inner try, so that a throwing fetch reaches
\* the catch of line 185 and the finally of line 191.
ClassFetchSettlesThrowEscapes(outcome) ==
    /\ classPc = "fetch"
    /\ UNCHANGED scanParams
    /\ IF outcome = "ok"
       THEN /\ classPc' = "json"
            /\ UNCHANGED <<results, seq, emptyCount, probesIssued, lastProbed,
                           sinceFound, found, classState, inFlight, toast, idx>>
       ELSE IF outcome = "throws"
       THEN /\ ProbeEmpty
            /\ classPc' = "idle"
            /\ toast' = Toast("fetchClassResults", "Error")
            /\ classLoading' = FALSE
            /\ inFlight' = inFlight \ {ClassRequest(seq)}
            /\ UNCHANGED <<results, seq, emptyCount, probesIssued, lastProbed,
                           classResults, classSchoolName, isClassModalOpen, idx>>
       ELSE /\ ProbeEmpty
            /\ ScanLoop(results, seq + 1, emptyCount + 1, probesIssued,
                        classResults, classSchoolName, inFlight \ {ClassRequest(seq)})
    /\ UNCHANGED <<lookupVars, classInputs, rosterSize>>
    /\ NoExport

\* The await of line 145 settles: fetch throws ("throws", caught at 161), or
\* resolves with a non-success status ("notOk", lines 149-153), or resolves
\* with a success status ("ok"), and then res.json() is awaited (line 154).
ClassFetchSettles(outcome) ==
    /\ classPc = "fetch"
    /\ UNCHANGED scanParams
    /\ IF outcome = "ok"
       THEN /\ classPc' = "json"
            /\ UNCHANGED <<results, seq, emptyCount, probesIssued, lastProbed,
                           sinceFound, found, classState, inFlight, toast, idx>>
       ELSE /\ ProbeEmpty
            /\ ScanLoop(results, seq + 1, emptyCount + 1, probesIssued,
                        classResults, classSchoolName, inFlight \ {ClassRequest(seq)})
    /\ UNCHANGED <<lookupVars, classInputs, rosterSize>>
    /\ NoExport

\* Mutant of ClassJsonSettles: a found probe without `emptyCount = 0` (line 157).
ClassJsonSettlesNoReset(data) ==
    /\ classPc = "json"
    /\ UNCHANGED scanParams
    /\ IF IsStudentRecord(data) THEN ProbeFound(data) ELSE ProbeEmpty
    /\ IF data.json = "undecodable"
       THEN ScanLoop(results, seq + 1, emptyCount + 1, probesIssued,
                     classResults, classSchoolName, inFlight \ {ClassRequest(seq)})
       ELSE IF HasName(data)
       THEN ScanLoop(Append(results, data.ref), seq + 1, emptyCount, probesIssued,
                     classResults, classSchoolName, inFlight \ {ClassRequest(seq)})
       ELSE ScanLoop(results, seq + 1, emptyCount + 1, probesIssued,
                     classResults, classSchoolName, inFlight \ {ClassRequest(seq)})
    /\ UNCHANGED <<lookupVars, classInputs, rosterSize>>
    /\ NoExport

\* The await of line 154 settles with the body; lines 155-164.
ClassJsonSettles(data) ==
    /\ classPc = "json"
    /\ UNCHANGED scanParams
    /\ IF IsStudentRecord(data) THEN ProbeFound(data) ELSE ProbeEmpty
    /\ IF data.json = "undecodable"
       THEN \* res.json() rejects: the catch of line 161, then line 164
            ScanLoop(results, seq + 1, emptyCount + 1, probesIssued,
                     classResults, classSchoolName, inFlight \ {ClassRequest(seq)})
       ELSE IF HasName(data)
       THEN \* lines 156-157, 164
            ScanLoop(Append(results, data.ref), seq + 1, 0, probesIssued,
                     classResults, classSchoolName, inFlight \ {ClassRequest(seq)})
       ELSE \* lines 159, 164
            ScanLoop(results, seq + 1, emptyCount + 1, probesIssued,
                     classResults, classSchoolName, inFlight \ {ClassRequest(seq)})
    /\ UNCHANGED <<lookupVars, classInputs, rosterSize>>
    /\ NoExport

-----------------------------------------------------------------------------
(* The endpoint. *)

FetchOutcomes == {"throws", "notOk", "ok"}

\* Any body for a sequence number the endpoint holds a record for, and no
\* record for the others.
AnyBody(n) == IF n <= rosterSize THEN Records \cup EmptyBodies ELSE EmptyBodies

\* A reliable endpoint: the record of n when it holds one.
RosterRecord(n) == Object(((n - 1) % Len(Samples)) + 1)
RosterOutcomes(n) == IF n <= rosterSize THEN {"ok"} ELSE FetchOutcomes
RosterBody(n) == IF n <= rosterSize THEN {RosterRecord(n)} ELSE EmptyBodies

-----------------------------------------------------------------------------
(* getResults, lines 69-117. *)

LookupRequest == [op |-> "lookup", seq |-> 0]
NoResult == 0

\* The buttons of lines 331 and 353 are rendered on the ADVANCED and ORDINARY
\* tabs and disabled while loading.
CanClickGetResults == activeTab \in {"ADVANCED", "ORDINARY"} /\ ~loading

\* Mutant of LookupInputMissing: the national id is not required.
LookupInputMissingIndexOnly == indexNumber = ""

\* The condition of line 70.
LookupInputMissing == indexNumber = "" \/ (activeTab = "ADVANCED" /\ nationalId = "")

\* Lines 70-77.
GetResultsMissing ==
    /\ CanClickGetResults
    /\ LookupInputMissing
    /\ toast' = Toast("getResults", "Missing Information")
    /\ UNCHANGED <<lookupVars, classInputs, classState, scanVars, inFlight, rosterSize>>
    /\ NoExport

\* Lines 79-90: the lookup starts and issues its request.
GetResultsStart ==
    /\ CanClickGetResults
    /\ ~LookupInputMissing
    /\ loading' = TRUE
    /\ result' = NoResult
    /\ lookupPc' = "fetch"
    /\ inFlight' = inFlight \cup {LookupRequest}
    /\ UNCHANGED <<activeTab, indexNumber, nationalId, isModalOpen,
                   classInputs, classState, scanVars, toast, rosterSize>>
    /\ NoExport

GetResults == GetResultsMissing \/ GetResultsStart

\* Lines 108-116: the catch block and the finally block.
LookupCatch ==
    /\ toast' = Toast("getResults", "Error")
    /\ loading' = FALSE
    /\ lookupPc' = "idle"
    /\ inFlight' = inFlight \ {LookupRequest}
    /\ UNCHANGED <<result, isModalOpen>>

\* The await of line 90 settles: fetch throws, or resolves with a non-success
\* status (line 91 throws), or resolves with a success status and res.json()
\* is awaited (line 92).
LookupFetchSettles(outcome) ==
    /\ lookupPc = "fetch"
    /\ IF outcome = "ok"
       THEN /\ lookupPc' = "json"
            /\ UNCHANGED <<loading, result, isModalOpen, inFlight, toast>>
       ELSE LookupCatch
    /\ UNCHANGED <<activeTab, indexNumber, nationalId, classInputs, classState, scanVars, rosterSize>>
    /\ NoExport

\* The await of line 92 settles with the body; lines 94-107, 114-116.
LookupJsonSettles(data) ==
    /\ lookupPc = "json"
    /\ IF data.json = "undecodable"
       THEN LookupCatch
       ELSE /\ loading' = FALSE
            /\ lookupPc' = "idle"
            /\ inFlight' = inFlight \ {LookupRequest}
            /\ IF HasName(data)
               THEN /\ result' = data.ref
                    /\ isModalOpen' = TRUE
                    /\ toast' = Toast("getResults", "Results Retrieved!")
               ELSE /\ toast' = Toast("getResults", "No Results Found")
                    /\ UNCHANGED <<result, isModalOpen>>
    /\ UNCHANGED <<activeTab, indexNumber, nationalId, classInputs, classState, scanVars, rosterSize>>
    /\ NoExport

-----------------------------------------------------------------------------
(* The forms and the dialogs, lines 309-391, 447-456, 594-611. *)

IndexNumbers == {"", "110101OLC0012025"}
NationalIds == {"", "1199080012345678"}

notLookupInputs == <<loading, result, isModalOpen, lookupPc,
                     classInputs, classState, scanVars, inFlight, toast, rosterSize>>

SetActiveTab ==
    /\ \E t \in Tabs : t # activeTab /\ activeTab' = t
    /\ UNCHANGED <<indexNumber, nationalId, notLookupInputs>>
    /\ NoExport

SetIndexNumber ==
    /\ activeTab \in {"ADVANCED", "ORDINARY"}
    /\ \E v \in IndexNumbers : v # indexNumber /\ indexNumber' = v
    /\ UNCHANGED <<activeTab, nationalId, notLookupInputs>>
    /\ NoExport

SetNationalId ==
    /\ activeTab = "ADVANCED"
    /\ \E v \in NationalIds : v # nationalId /\ nationalId' = v
    /\ UNCHANGED <<activeTab, indexNumber, notLookupInputs>>
    /\ NoExport

CloseModal ==
    /\ isModalOpen
    /\ isModalOpen' = FALSE
    /\ UNCHANGED <<activeTab, indexNumber, nationalId, loading, result, lookupPc,
                   classInputs, classState, scanVars, inFlight, toast, rosterSize>>
    /\ NoExport

SetSchoolCode ==
    /\ activeTab = "CLASS"
    /\ \E v \in SchoolCodes : v # schoolCode /\ schoolCode' = v
    /\ UNCHANGED <<lookupVars, levelCode, examYear, classState, scanVars, inFlight, toast, rosterSize>>
    /\ NoExport

SetLevelCode ==
    /\ activeTab = "CLASS"
    /\ \E v \in LevelCodes : v # levelCode /\ levelCode' = v
    /\ UNCHANGED <<lookupVars, schoolCode, examYear, classState, scanVars, inFlight, toast, rosterSize>>
    /\ NoExport

SetExamYear ==
    /\ activeTab = "CLASS"
    /\ \E v \in ExamYears : v # examYear /\ examYear' = v
    /\ UNCHANGED <<lookupVars, schoolCode, levelCode, classState, scanVars, inFlight, toast, rosterSize>>
    /\ NoExport

CloseClassModal ==
    /\ isClassModalOpen
    /\ isClassModalOpen' = FALSE
    /\ UNCHANGED <<lookupVars, classInputs, classLoading, classResults, classSchoolName,
                   scanVars, inFlight, toast, rosterSize>>
    /\ NoExport

-----------------------------------------------------------------------------
(* The class table and its export, lines 196-279.  A text is a sequence of  *)
(* pieces: characters, or whole words of the sample data.                   *)

\* A string of the sample data as a text.
Text(s) == IF s = "" THEN <<>> ELSE <<s>>

\* The elements of student.rawMark when it is an array (lines 201, 246).
RawMarkArray(r) == IF Objects[r].rawMark = <<>> THEN <<>> ELSE Objects[r].rawMark[1]

\* The inner forEach of lines 202-204: the names of marks not yet in cols are
\* appended to it, in order; a mark without a (non-empty) name adds nothing.
RECURSIVE AddSubjects(_, _)
AddSubjects(cols, marks) ==
    IF marks = <<>> THEN cols
    ELSE LET name == Head(marks).subjectName
             seen == \E i \in 1..Len(cols) : cols[i] = name
         IN  AddSubjects(IF name # "" /\ ~seen THEN Append(cols, name) ELSE cols,
                         Tail(marks))

RECURSIVE SubjectsOf(_, _)
SubjectsOf(cols, students) ==
    IF students = <<>> THEN cols
    ELSE SubjectsOf(AddSubjects(cols, RawMarkArray(Head(students))), Tail(students))

\* classSubjects, lines 196-208.
ClassSubjects(students) == SubjectsOf(<<>>, students)

\* Mutant of MarkObj: the last mark of that name.
MarkObjLast(r, subject) ==
    LET marks == RawMarkArray(r)
        hits  == {i \in 1..Len(marks) : marks[i].subjectName = subject}
    IN  IF hits = {} THEN <<>> ELSE <<marks[CHOOSE i \in hits : \A j \in hits : j <= i]>>

\* markObj, lines 246 and 671: the first mark of that name, <<>> when find
\* returns undefined.
MarkObj(r, subject) ==
    LET marks == RawMarkArray(r)
        hits  == {i \in 1..Len(marks) : marks[i].subjectName = subject}
    IN  IF hits = {} THEN <<>> ELSE <<marks[CHOOSE i \in hits : \A j \in hits : i <= j]>>

\* Number.prototype.toFixed(1) of a whole number (line 248).
ToFixed1(n) == String(n) \o <<".", "0">>

\* The cell of lines 247-253 for a student and a subject column.
SubjectCell(r, subject) ==
    LET markObj == MarkObj(r, subject) IN
    IF markObj # <<>>
    THEN LET mark  == IF markObj[1].markPercent # <<>>
                      THEN ToFixed1(markObj[1].markPercent[1]) \o <<"%">>
                      ELSE <<"-">>
             grade == IF markObj[1].letterGrade # <<>>
                      THEN Text(markObj[1].letterGrade[1])
                      ELSE <<"-">>
         IN  mark \o <<" (">> \o grade \o <<")">>
    ELSE <<"-">>

\* `x || "-"` of an optional string (lines 241-242).
OrDash(field) == IF field = <<>> \/ field = <<"">> THEN <<"-">> ELSE Text(field[1])

\* Mutant of Row: a subject the student has no mark in adds no cell.
RowSkippingMissing(r, subjects) ==
    LET present == SelectSeq(subjects, LAMBDA s : MarkObj(r, s) # <<>>) IN
    << Text(Objects[r].studentIndexNumber),
       Text(Objects[r].studentNames),
       (IF Objects[r].weightedPercent = <<>> THEN <<"undefined">>
        ELSE String(Objects[r].weightedPercent[1])) \o <<"%">>,
       Text(Objects[r].division),
       OrDash(Objects[r].placedSchoolName),
       OrDash(Objects[r].placedCombinationName) >>
    \o [i \in 1..Len(present) |-> SubjectCell(r, present[i])]

\* A row of lines 235-257.
Row(r, subjects) ==
    << Text(Objects[r].studentIndexNumber),
       Text(Objects[r].studentNames),
       (IF Objects[r].weightedPercent = <<>> THEN <<"undefined">>
        ELSE String(Objects[r].weightedPercent[1])) \o <<"%">>,
       Text(Objects[r].division),
       OrDash(Objects[r].placedSchoolName),
       OrDash(Objects[r].placedCombinationName) >>
    \o [i \in 1..Len(subjects) |-> SubjectCell(r, subjects[i])]

\* headers, lines 224-232.
Headers(subjects) ==
    << <<"Index Number">>, <<"Name">>, <<"Weighted %">>, <<"Division">>,
       <<"Placed School">>, <<"Placed Combination">> >>
    \o [i \in 1..Len(subjects) |-> Text(subjects[i])]

\* Array.prototype.join of texts.
RECURSIVE Join(_, _)
Join(texts, separator) ==
    IF texts = <<>> THEN <<>>
    ELSE IF Len(texts) = 1 THEN texts[1]
    ELSE texts[1] \o separator \o Join(Tail(texts), separator)

\* csvContent, lines 260-262.
CsvContent(students) ==
    LET subjects == ClassSubjects(students)
        table == <<Headers(subjects)>> \o [i \in 1..Len(students) |-> Row(students[i], subjects)]
        Line(row) == Join([j \in 1..Len(row) |-> <<"\"">> \o row[j] \o <<"\"">>], <<",">>)
    IN  Join([i \in 1..Len(table) |-> Line(table[i])], <<"\n">>)

\* The download attribute of line 269.
FileName(sc, lc, ey) ==
    <<"class_results_">> \o sc \o <<"_">> \o lc \o <<"_">> \o ey \o <<".csv">>

\* exportClassResultsCSV, lines 211-279; its button is in the class dialog
\* (lines 594, 603-609).
ExportClassResultsCSV ==
    /\ isClassModalOpen
    /\ IF classResults = <<>>
       THEN /\ toast' = Toast("exportClassResultsCSV", "No Data")
            /\ NoExport
       ELSE /\ download' = [name |-> FileName(schoolCode, levelCode, examYear),
                            csv |-> CsvContent(classResults)]
            /\ toast' = Toast("exportClassResultsCSV", "Export Complete")
    /\ UNCHANGED <<lookupVars, classInputs, classState, scanVars, inFlight, rosterSize>>

-----------------------------------------------------------------------------
(* Specifications. *)

\* The state after the first render, lines 49-66.
InitComponent ==
    /\ indexNumber = "" /\ nationalId = ""
    /\ loading = FALSE /\ result = NoResult /\ isModalOpen = FALSE
    /\ classLoading = FALSE /\ classResults = <<>> /\ classSchoolName = ""
    /\ isClassModalOpen = FALSE
    /\ results = <<>> /\ seq = 1 /\ emptyCount = 0
    /\ scanParams = ScanParams(<<>>, <<>>, <<>>) /\ idx = <<>>
    /\ classPc = "idle" /\ lookupPc = "idle"
    /\ inFlight = {} /\ toast = NoToast /\ download = NoDownload
    /\ probesIssued = 0 /\ lastProbed = 0 /\ sinceFound = 0 /\ found = <<>>

ClassFetchSettlesAny == \E o \in FetchOutcomes : ClassFetchSettles(o)
ClassJsonSettlesAny == \E d \in AnyBody(seq) : ClassJsonSettles(d)
LookupFetchSettlesAny == \E o \in FetchOutcomes : LookupFetchSettles(o)
LookupJsonSettlesAny == \E d \in Records \cup EmptyBodies : LookupJsonSettles(d)

\* The bodies the endpoint of Spec answers with.
FormBodies == {Object(1)} \cup EmptyBodies
FormClassJsonSettles ==
    \E d \in (IF seq <= rosterSize THEN FormBodies ELSE EmptyBodies) : ClassJsonSettles(d)
FormLookupJsonSettles == \E d \in FormBodies : LookupJsonSettles(d)

\* Spec: the whole component, every handler interleaved with every other.
Init ==
    /\ InitComponent
    /\ activeTab = "ADVANCED"
    /\ schoolCode = <<>> /\ levelCode = <<>> /\ examYear = <<>>
    /\ rosterSize = FormRoster

Next ==
    \/ SetActiveTab \/ SetIndexNumber \/ SetNationalId \/ CloseModal
    \/ GetResultsMissing \/ GetResultsStart
    \/ LookupFetchSettlesAny \/ FormLookupJsonSettles
    \/ SetSchoolCode \/ SetLevelCode \/ SetExamYear \/ CloseClassModal
    \/ FetchClassResultsMissing \/ FetchClassResultsStart
    \/ ClassFetchSettlesAny \/ FormClassJsonSettles

Spec == Init /\ [][Next]_vars

\* SpecLookup: the two lookup tabs alone, against an endpoint that may answer
\* a lookup in any way.
NextLookup ==
    \/ SetActiveTab \/ SetIndexNumber \/ SetNationalId \/ CloseModal
    \/ GetResultsMissing \/ GetResultsStart
    \/ LookupFetchSettlesAny \/ LookupJsonSettlesAny

SpecLookup == Init /\ [][NextLookup]_vars

\* SpecScan: class scans of a filled-in form against an endpoint that may
\* answer any probe of 1..MaxRoster in any way and holds no other record.
InitScan ==
    /\ InitComponent
    /\ activeTab = "CLASS"
    /\ schoolCode = SampleSchoolCode /\ levelCode = SampleLevelCode
    /\ examYear = SampleExamYear
    /\ rosterSize = MaxRoster

NextScan ==
    \/ FetchClassResultsStart \/ CloseClassModal
    \/ ClassFetchSettlesAny \/ ClassJsonSettlesAny

SpecScan == InitScan /\ [][NextScan]_vars

\* SpecRoster: one scan of a class against a reliable endpoint whose roster is
\* 1..rosterSize: every probe of the roster is found, every other one is empty.
RosterSizes == (0..RosterFew) \cup ((MAX_STUDENTS - RosterNear)..MAX_STUDENTS)

InitRoster ==
    /\ InitComponent
    /\ activeTab = "CLASS"
    /\ schoolCode = SampleSchoolCode /\ levelCode = SampleLevelCode
    /\ examYear = SampleExamYear
    /\ rosterSize \in RosterSizes

FirstScan == toast = NoToast /\ FetchClassResultsStart
RosterFetchSettles == \E o \in RosterOutcomes(seq) : ClassFetchSettles(o)
RosterJsonSettles == \E d \in RosterBody(seq) : ClassJsonSettles(d)

NextRoster == FirstScan \/ RosterFetchSettles \/ RosterJsonSettles

SpecRoster == InitRoster /\ [][NextRoster]_vars

-----------------------------------------------------------------------------
(* Properties. *)

\* A class scan has started and has run to its end.
ScanDone == classPc = "idle" /\ probesIssued > 0
\* The requests of the class scan that are in flight.
ClassInFlight == {r \in inFlight : r.op = "class"}
\* How many times r occurs in s.
Count(s, r) == Len(SelectSeq(s, LAMBDA x : x = r))
\* s and t hold the same records, each as many times.
SameRecords(s, t) == Len(s) = Len(t) /\ \A r \in Records : Count(s, r.ref) = Count(t, r.ref)

\* C1: while a probe of a class scan is outstanding, the consecutive-empty
\* counter is below 20, the sequence counter is at most 1000 and fewer than 20
\* empty probes have completed in a row; no request is ever issued for a
\* sequence number above 1000; and a scan that has ended has ended with the
\* counter at exactly 20 or the sequence counter at exactly 1001.
C1_ProbeOnlyBelowCeilings ==
    /\ classPc # "idle" =>
          /\ emptyCount < 20 /\ seq <= 1000 /\ sinceFound < 20
          /\ ClassInFlight = {ClassRequest(seq)}
    /\ \A r \in ClassInFlight : r.seq <= 1000
    /\ lastProbed <= 1000
    /\ ScanDone => (emptyCount = 20 \/ seq = 1001) /\ ClassInFlight = {}

\* A scan that was stopped by the sequence ceiling, not by the streak ceiling.
C1_Witness == ScanDone /\ seq = 1001 /\ emptyCount < 20 /\ lastProbed = 1000

\* C2, as claimed: a scan whose probes were all empty ends at sequence 1000,
\* after exactly 1000 requests, below the streak ceiling.
C2_AllEmptyRunsToThousand ==
    (ScanDone /\ found = <<>>) =>
        probesIssued = 1000 /\ lastProbed = 1000 /\ emptyCount < 20

\* C2, amended: a scan whose probes were all empty ends by the streak ceiling
\* after the probe of sequence 20, having made exactly 20 requests, and
\* exposes no result.
C2_AllEmptyStopsAtTwenty ==
    (ScanDone /\ found = <<>>) =>
        /\ probesIssued = 20 /\ lastProbed = 20
        /\ emptyCount = 20 /\ seq = 21
        /\ classResults = <<>>

C2_Witness == ScanDone /\ rosterSize = 0 /\ found = <<>> /\ probesIssued = 20

\* C3: when the probes 1..k are found and every later one is empty, k <= 980,
\* the scan ends after the probe of sequence k+20, having made exactly k+20
\* requests, and exposes exactly the k records found.
C3_FoundPrefixThenEmpty ==
    (ScanDone /\ rosterSize <= 980) =>
        /\ found = [i \in 1..rosterSize |-> RosterRecord(i).ref]
        /\ lastProbed = rosterSize + 20
        /\ probesIssued = rosterSize + 20
        /\ Len(classResults) = rosterSize
        /\ SameRecords(classResults, found)

\* The largest k of the claim: the 20th empty probe is the probe of 1000.
C3_Witness ==
    ScanDone /\ rosterSize = 980 /\ lastProbed = 1000 /\ Len(classResults) = 980

\* C4: at every point the consecutive-empty counter is the number of probes
\* completed since the last probe the endpoint answered with a record (a
\* success status and a body decoding to an object with a non-empty name), or
\* since the start; and while the scan runs the accumulator holds the records
\* the endpoint answered with, in probe order.
C4_CounterAndAccumulator ==
    /\ emptyCount = sinceFound
    /\ classPc # "idle" => results = found

\* Found, empty, found, empty, empty: two records, a streak of two.
C4_Witness ==
    /\ classPc = "fetch" /\ seq = 6
    /\ found = <<1, 2>> /\ results = <<1, 2>>
    /\ sinceFound = 2 /\ emptyCount = 2

\* C5: the scan has at most one request in flight; while it runs, the request
\* in flight is the one of its sequence counter, which is also the number of
\* requests issued so far (1, 2, 3, ... without a gap or a repeat); between
\* scans nothing of it is in flight.
C5_SequentialProbes ==
    /\ Cardinality(ClassInFlight) <= 1
    /\ probesIssued = lastProbed
    /\ classPc # "idle" => ClassInFlight = {ClassRequest(seq)} /\ lastProbed = seq
    /\ classPc = "idle" => ClassInFlight = {}

\* The seventh probe is out, after found and empty probes.
C5_Witness ==
    /\ classPc = "fetch" /\ lastProbed = 7 /\ probesIssued = 7
    /\ Len(found) >= 1 /\ sinceFound >= 1

\* The rank of a record, read from the record itself.
RankOf(r) == IF Objects[r].weightedPercent = <<>> THEN 0 ELSE Objects[r].weightedPercent[1]
Ranks == {RankOf(r.ref) : r \in Records}
Ranked(s, p) == SelectSeq(s, LAMBDA x : RankOf(x) = p)

\* C7: after a scan, classResults holds the records found, each as many times
\* as found, by weighted percent descending with a missing percent counting
\* as 0, and the records of one percent in the order they were found.
C7_SortedByWeightedPercent ==
    ScanDone =>
        /\ SameRecords(classResults, found)
        /\ \A i \in 1..(Len(classResults) - 1) :
              RankOf(classResults[i]) >= RankOf(classResults[i + 1])
        /\ \A p \in Ranks : Ranked(classResults, p) = Ranked(found, p)

\* Found percents [55, 90, 70] are exposed as [90, 70, 55].
C7_Witness == ScanDone /\ found = <<1, 2, 3>> /\ classResults = <<2, 3, 1>>

\* A step in which a probe of the scan completes without a record.
ProbeFails == classPc # "idle" /\ sinceFound' = sinceFound + 1

\* C8: a probe that completes without a record (a thrown fetch, a non-success
\* status, an undecodable body, a body without a name) adds one to the
\* consecutive-empty counter, keeps the accumulator, and shows no "Error";
\* below both ceilings the scan goes on with the next sequence number, and
\* otherwise it ends with one of its two regular outcomes.
C8_ProbeFailureAbsorbed ==
    [][ProbeFails =>
          /\ emptyCount' = emptyCount + 1
          /\ toast'.title # "Error"
          /\ IF emptyCount + 1 < 20 /\ seq + 1 <= 1000
             THEN /\ classLoading' /\ classPc' = "fetch"
                  /\ ClassRequest(seq + 1) \in inFlight'
                  /\ results' = results
                  /\ toast' = toast
             ELSE /\ ~classLoading' /\ classPc' = "idle"
                  /\ toast'.title \in {"Class Results Retrieved!", "No Results Found"}]_vars

\* The scan goes on after three failed probes in a row.
C8_Witness == classLoading /\ classPc = "fetch" /\ found # <<>> /\ emptyCount = 3

\* C9: a running scan shows no toast before it ends, and it ends with exactly
\* one of two outcomes, never "Error": "Class Results Retrieved!", a non-empty
\* classResults and the class modal open when a record was found; "No Results
\* Found", an empty classResults and the class modal as it was when none was.
C9_FinalOutcome ==
    [][/\ (classLoading /\ classLoading') => toast' = toast
       /\ (classLoading /\ ~classLoading') =>
             /\ toast'.by = "fetchClassResults"
             /\ IF found' # <<>>
                THEN /\ toast'.title = "Class Results Retrieved!"
                     /\ classResults' # <<>>
                     /\ isClassModalOpen'
                ELSE /\ toast'.title = "No Results Found"
                     /\ classResults' = <<>>
                     /\ isClassModalOpen' = isClassModalOpen]_vars

\* A scan that found nothing, reported as "No Results Found".
C9_Witness ==
    /\ ScanDone /\ found = <<>> /\ classResults = <<>>
    /\ toast = Toast("fetchClassResults", "No Results Found")
    /\ ~isClassModalOpen

\* Everything but the toast.
notToast == <<activeTab, indexNumber, nationalId, loading, result, isModalOpen,
              schoolCode, levelCode, examYear,
              classLoading, classResults, classSchoolName, isClassModalOpen,
              results, seq, emptyCount, classPc, lookupPc, inFlight,
              probesIssued, lastProbed, sinceFound, found>>

\* C6: no class scan starts with an empty schoolCode, levelCode or examYear,
\* and no lookup with an empty indexNumber or, on the ADVANCED tab, an empty
\* nationalId; "Missing Information" is shown only by an operation whose input
\* is missing, and the step that shows it issues no request and changes
\* nothing else.
C6_MissingInputDoesNotStart ==
    [][/\ (~classLoading /\ classLoading') =>
             schoolCode # <<>> /\ levelCode # <<>> /\ examYear # <<>>
       /\ (~loading /\ loading') =>
             indexNumber # "" /\ (activeTab = "ADVANCED" => nationalId # "")
       /\ (toast' # toast /\ toast'.title = "Missing Information") =>
             /\ UNCHANGED notToast
             /\ toast'.by = "fetchClassResults" =>
                   schoolCode = <<>> \/ levelCode = <<>> \/ examYear = <<>>
             /\ toast'.by = "getResults" =>
                   indexNumber = "" \/ (activeTab = "ADVANCED" /\ nationalId = "")]_vars

\* On the ADVANCED tab with an index number and no national id.
C6_Witness ==
    /\ toast = Toast("getResults", "Missing Information")
    /\ activeTab = "ADVANCED" /\ indexNumber # "" /\ nationalId = ""
    /\ ~loading /\ lookupPc = "idle" /\ inFlight = {}

\* How a lookup ends: with the record d, or without one under the given title.
LookupFound(d) ==
    /\ result' = d.ref /\ isModalOpen'
    /\ toast' = Toast("getResults", "Results Retrieved!")
    /\ ~loading' /\ lookupPc' = "idle"
LookupWithout(title) ==
    /\ result = NoResult /\ result' = NoResult
    /\ isModalOpen' = isModalOpen
    /\ toast' = Toast("getResults", title)
    /\ ~loading' /\ lookupPc' = "idle"

\* C10, as claimed: a lookup ends with the record stored and the modal opened
\* exactly when the status is a success and the body has a non-empty name, and
\* in every other case as not found.
C10_FoundOrNotFound ==
    [][/\ \A d \in Records \cup EmptyBodies :
             LookupJsonSettles(d) =>
                 IF d \in Records THEN LookupFound(d) ELSE LookupWithout("No Results Found")
       /\ \A o \in {"throws", "notOk"} :
             LookupFetchSettles(o) => LookupWithout("No Results Found")]_vars

\* C10, amended: a lookup ends with the record stored and the modal opened
\* exactly when the status is a success and the body has a non-empty name; as
\* not found when the status is a success and the body decodes without a
\* name; and as an "Error" when fetch throws, the status is not a success or
\* the body cannot be decoded.  In the last two cases result stays null and
\* the modal is as it was; in all three loading is false again.
C10_FoundNotFoundOrError ==
    [][/\ \A d \in Records \cup EmptyBodies :
             LookupJsonSettles(d) =>
                 IF d \in Records THEN LookupFound(d)
                 ELSE IF d = Undecodable THEN LookupWithout("Error")
                 ELSE LookupWithout("No Results Found")
       /\ \A o \in {"throws", "notOk"} :
             LookupFetchSettles(o) => LookupWithout("Error")
       /\ (loading /\ lookupPc' = "idle") => ~loading']_vars

\* A lookup that found a record.
C10_Witness ==
    /\ toast = Toast("getResults", "Results Retrieved!")
    /\ result = 1 /\ isModalOpen /\ ~loading /\ lookupPc = "idle"

-----------------------------------------------------------------------------
(* The identifiers of a scan. *)

\* SpecIdentifier: one scan, of an empty class or of a class that fills every
\* sequence number, while the user edits the form.
InitIdentifier ==
    /\ InitComponent
    /\ activeTab = "CLASS"
    /\ schoolCode = SampleSchoolCode /\ levelCode = SampleLevelCode
    /\ examYear = SampleExamYear
    /\ rosterSize \in {0, MAX_STUDENTS}

NextIdentifier ==
    \/ FirstScan \/ RosterFetchSettles \/ RosterJsonSettles
    \/ SetSchoolCode \/ SetLevelCode \/ SetExamYear

SpecIdentifier == InitIdentifier /\ [][NextIdentifier]_vars

\* The number a string of decimal digits denotes.
DigitValue(c) == (CHOOSE i \in 1..Len(Digits) : Digits[i] = c) - 1
RECURSIVE NumberOf(_)
NumberOf(s) ==
    IF s = <<>> THEN 0
    ELSE NumberOf(SubSeq(s, 1, Len(s) - 1)) * 10 + DigitValue(s[Len(s)])

\* The part of the identifier between the codes and the exam year.
SequencePart(id) ==
    SubSeq(id, Len(SampleSchoolCode) + Len(SampleLevelCode) + 1,
               Len(id) - Len(SampleExamYear))

\* C11: the identifier of the probe in flight at sequence number seq is the
\* school code the scan was started with, its level code in upper case, seq in
\* decimal and zero-padded to three digits, and its exam year, whatever the
\* form holds by now (a scan can only start from the sample class, so these
\* are "123456", "OLC" and "2025"; 7 gives "123456OLC0072025").  The sequence
\* number can be read back from the identifier, so two sequence numbers of
\* one scan never give the same identifier.
C11_IdentifierOfProbe ==
    classPc # "idle" =>
        /\ SubSeq(idx, 1, Len(SampleSchoolCode)) = SampleSchoolCode
        /\ SubSeq(idx, Len(SampleSchoolCode) + 1,
                       Len(SampleSchoolCode) + Len(SampleLevelCode)) = <<"O", "L", "C">>
        /\ SubSeq(idx, Len(idx) - Len(SampleExamYear) + 1, Len(idx)) = SampleExamYear
        /\ Len(SequencePart(idx)) = (IF seq < 1000 THEN 3 ELSE 4)
        /\ \A i \in 1..Len(SequencePart(idx)) :
               \E d \in 1..Len(Digits) : SequencePart(idx)[i] = Digits[d]
        /\ NumberOf(SequencePart(idx)) = seq
        /\ seq = 7 => idx = <<"1", "2", "3", "4", "5", "6", "O", "L", "C",
                               "0", "0", "7", "2", "0", "2", "5">>

\* The seventh probe is in flight and the user has emptied the form meanwhile.
C11_Witness ==
    /\ classPc = "fetch" /\ seq = 7
    /\ schoolCode = <<>> /\ levelCode = <<>> /\ examYear = <<>>
    /\ idx = <<"1", "2", "3", "4", "5", "6", "O", "L", "C",
               "0", "0", "7", "2", "0", "2", "5">>

-----------------------------------------------------------------------------
(* The exported file. *)

\* SpecFileName: class scans and exports while the user edits the form,
\* against the endpoint of Spec.
InitFileName ==
    /\ InitComponent
    /\ activeTab = "CLASS"
    /\ schoolCode = SampleSchoolCode /\ levelCode = SampleLevelCode
    /\ examYear = SampleExamYear
    /\ rosterSize = FormRoster

NextFileName ==
    \/ SetSchoolCode \/ SetLevelCode \/ SetExamYear \/ CloseClassModal
    \/ FetchClassResultsMissing \/ FetchClassResultsStart
    \/ ClassFetchSettlesAny \/ FormClassJsonSettles
    \/ ExportClassResultsCSV

SpecFileName == InitFileName /\ [][NextFileName]_vars

\* C12: a file handed to the browser is named class_results_<schoolCode>_
\* <levelCode>_<examYear>.csv with the school code, level code and exam year
\* of the scan that produced the exported results, also when the user has
\* edited the form since that scan started.
C12_FileNamedFromScan ==
    download # NoDownload =>
        download.name = <<"class_results_">> \o scanParams.schoolCode \o <<"_">>
                        \o scanParams.levelCode \o <<"_">>
                        \o scanParams.examYear \o <<".csv">>

-----------------------------------------------------------------------------
(* The class table. *)

\* SpecExport: class scans of a filled-in form against the endpoint of
\* SpecScan, and exports of what they found.
NextExport ==
    \/ FetchClassResultsStart \/ CloseClassModal
    \/ ClassFetchSettlesAny \/ ClassJsonSettlesAny
    \/ ExportClassResultsCSV

SpecExport == InitScan /\ [][NextExport]_vars

\* The marks of the i-th student of the class, and the named ones among them
\* by position: <<i, j>> is the j-th mark of the i-th student.
MarksOf(i) == RawMarkArray(classResults[i])
NamedMarks ==
    UNION {{<<i, j>> : j \in {j \in 1..Len(MarksOf(i)) : MarksOf(i)[j].subjectName # ""}} :
           i \in 1..Len(classResults)}
NameAt(m) == MarksOf(m[1])[m[2]].subjectName
Before(m, n) == m[1] < n[1] \/ (m[1] = n[1] /\ m[2] < n[2])
FirstSeen(name) ==
    CHOOSE m \in NamedMarks :
        NameAt(m) = name /\ \A n \in NamedMarks : NameAt(n) = name => (n = m \/ Before(m, n))

\* C13: the subject columns of the class table are the subject names of all
\* the marks of all the records, each once, in the order in which they are
\* first seen going through the records and their marks; the cell of a
\* student in a column is made from the student's first mark of that name,
\* and is "-" when the student has none.  With a record of {Math, Physics}
\* before one of {Math, Chemistry} the columns are Math, Physics, Chemistry
\* and the first record's Chemistry cell is "-".
C13_SubjectColumns ==
    LET cols == ClassSubjects(classResults) IN
    /\ {cols[k] : k \in 1..Len(cols)} = {NameAt(m) : m \in NamedMarks}
    /\ \A k, l \in 1..Len(cols) : k < l =>
           cols[k] # cols[l] /\ Before(FirstSeen(cols[k]), FirstSeen(cols[l]))
    /\ \A i \in 1..Len(classResults) : \A k \in 1..Len(cols) :
           LET mine == {m \in NamedMarks : m[1] = i /\ NameAt(m) = cols[k]} IN
           IF mine = {}
           THEN /\ MarkObj(classResults[i], cols[k]) = <<>>
                /\ SubjectCell(classResults[i], cols[k]) = <<"-">>
           ELSE LET first == CHOOSE m \in mine : \A n \in mine : n = m \/ Before(m, n) IN
                /\ MarkObj(classResults[i], cols[k]) = <<MarksOf(i)[first[2]]>>
                /\ SubjectCell(classResults[i], cols[k]) # <<"-">>
    /\ classResults = <<2, 1>> =>
           /\ cols = <<"Math", "Physics", "Chemistry">>
           /\ SubjectCell(classResults[1], "Chemistry") = <<"-">>

\* The class of the example is on the screen: B (Math, Physics) ranked before
\* A (Math, Chemistry).
C13_Witness ==
    /\ classPc = "idle" /\ isClassModalOpen
    /\ classResults = <<2, 1>>
    /\ ClassSubjects(classResults) = <<"Math", "Physics", "Chemistry">>

\* A CSV text read back: its rows of cells, each cell without its quotes, or
\* Malformed when a cell is not wrapped in double quotes.  A cell is expected
\* at position i; row holds the cells of the current line, rows the lines
\* before it.
Malformed == <<"malformed">>
Quote(text, j) == text[j] = "\""
RECURSIVE ReadCsv(_, _, _, _)
ReadCsv(text, i, row, rows) ==
    IF i > Len(text) \/ ~Quote(text, i) \/ ~\E j \in (i + 1)..Len(text) : Quote(text, j)
    THEN Malformed
    ELSE LET j == CHOOSE j \in (i + 1)..Len(text) :
                      Quote(text, j) /\ \A k \in (i + 1)..(j - 1) : ~Quote(text, k)
             cells == Append(row, SubSeq(text, i + 1, j - 1))
         IN  IF j = Len(text) THEN Append(rows, cells)
             ELSE IF text[j + 1] = "," THEN ReadCsv(text, j + 2, cells, rows)
             ELSE IF text[j + 1] = "\n" THEN ReadCsv(text, j + 2, <<>>, Append(rows, cells))
             ELSE Malformed
ParseCsv(text) == ReadCsv(text, 1, <<>>, <<>>)

\* C14: an export of an empty result set shows "No Data" and hands no file
\* to the browser.  An export of n >= 1 results hands over a CSV text that
\* reads back as a header row and exactly n rows, one per result in the order
\* of classResults; every row has as many cells as the header, the six fixed
\* ones and one per subject column; every cell is wrapped in double quotes;
\* the cell of a subject the student has no mark in is "-".
C14_ExportedTable ==
    [][/\ (ExportClassResultsCSV /\ classResults = <<>>) =>
             /\ toast' = Toast("exportClassResultsCSV", "No Data")
             /\ download' = NoDownload
       /\ download' # NoDownload =>
             LET table    == ParseCsv(download'.csv)
                 subjects == ClassSubjects(classResults)
                 n        == Len(classResults)
             IN  /\ n >= 1
                 /\ toast' = Toast("exportClassResultsCSV", "Export Complete")
                 /\ table # Malformed
                 /\ Len(table) = n + 1
                 /\ \A i \in 1..(n + 1) : Len(table[i]) = 6 + Len(subjects)
                 /\ SubSeq(table[1], 1, 6) =
                        << <<"Index Number">>, <<"Name">>, <<"Weighted %">>, <<"Division">>,
                           <<"Placed School">>, <<"Placed Combination">> >>
                 /\ \A k \in 1..Len(subjects) : table[1][6 + k] = <<subjects[k]>>
                 /\ \A i \in 1..n :
                        /\ table[i + 1][1] = <<Objects[classResults[i]].studentIndexNumber>>
                        /\ table[i + 1][2] = <<Objects[classResults[i]].studentNames>>
                        /\ \A k \in 1..Len(subjects) :
                               (\A j \in 1..Len(MarksOf(i)) :
                                    MarksOf(i)[j].subjectName # subjects[k])
                               => table[i + 1][6 + k] = <<"-">>]_vars

\* Three results with different subjects have just been exported: B, C (no
\* marks at all) and A.
C14_Witness ==
    /\ download # NoDownload
    /\ classResults = <<2, 3, 1>>
    /\ Len(ParseCsv(download.csv)) = 4
    /\ ParseCsv(download.csv)[3][8] = <<"-">>

-----------------------------------------------------------------------------
(* Termination of a scan. *)

\* SpecScanLive: SpecScan with an endpoint that answers: the await of a
\* request that is in flight settles sooner or later, and so does the await
\* of its body.
SpecScanLive ==
    /\ SpecScan
    /\ WF_vars(ClassFetchSettlesAny)
    /\ WF_vars(ClassJsonSettlesAny)

AtCeiling == emptyCount >= MAX_CONSECUTIVE_EMPTY \/ seq > MAX_STUDENTS

\* C15: when every probe completes, a scan that has started ends, at one of
\* its two ceilings and with classLoading back to false.  A scan never ends
\* over a probe that has not completed: as long as its probe is in flight the
\* scan is suspended with classLoading true, and classLoading only falls in
\* the step in which the scan's last probe completes; so a probe that never
\* completes keeps classLoading true for ever.
C15_ScanEnds ==
    /\ classLoading ~> (~classLoading /\ classPc = "idle" /\ AtCeiling)
    /\ [](ClassInFlight # {} => (classLoading /\ classPc # "idle"))
    /\ [][(classLoading /\ ~classLoading') =>
             (ClassInFlight # {} /\ ClassInFlight' = {} /\ classPc' = "idle")]_vars

\* A scan that found two students has ended at the empty-streak ceiling.
C15_Witness ==
    /\ ScanDone /\ ~classLoading /\ ClassInFlight = {}
    /\ emptyCount = MAX_CONSECUTIVE_EMPTY /\ Len(found) = 2

-----------------------------------------------------------------------------
(* What the screen shows of a running scan. *)

\* C16: no partial class results are exposed.  The step that starts a scan
\* empties classResults and classSchoolName and only then issues the first
\* probe; while classLoading is true they stay empty, whatever the scan has
\* found so far; they change again only in the step that ends the scan, after
\* its last probe has completed, to all the records found, sorted, and to the
\* attended school of the first of them ("" when it has none, or when
\* nothing was found).
C16_NoPartialResults ==
    [][/\ classLoading' => (classResults' = <<>> /\ classSchoolName' = "")
       /\ (~classLoading /\ classLoading') =>
             (probesIssued' = 1 /\ ClassInFlight' = {ClassRequest(1)})
       /\ (classResults' # classResults \/ classSchoolName' # classSchoolName) =>
             \/ ~classLoading /\ classLoading'
             \/ /\ classLoading /\ ~classLoading'
                /\ ClassInFlight # {} /\ ClassInFlight' = {}
       /\ (classLoading /\ ~classLoading') =>
             /\ SameRecords(classResults', found')
             /\ \A i \in 1..(Len(classResults') - 1) :
                   RankOf(classResults'[i]) >= RankOf(classResults'[i + 1])
             /\ classSchoolName' =
                   IF classResults' = <<>> \/ Objects[classResults'[1]].attendedSchool = <<>>
                   THEN ""
                   ELSE Objects[classResults'[1]].attendedSchool[1]]_vars

\* A second scan has found two students already and shows none of them, nor
\* anything of the scan before it, behind the dialog that scan opened.
C16_Witness ==
    /\ classLoading /\ isClassModalOpen /\ Len(found) = 2
    /\ classResults = <<>> /\ classSchoolName = ""

====
